---- MODULE Spec2Model ----
(*************************************************************************)
(* Model of the silkandsaffron Dialogflow webhook (bot/views.py), the     *)
(* PageContent table (bot/models.py) and the admin actions (bot/admin.py).*)
(*                                                                        *)
(* Text is modelled character by character on TLC strings: Python's       *)
(* `in`, lower(), split(), strip(), slicing and the regular expressions   *)
(* of clean_scraped_text are computed, not assumed.  The text domain is   *)
(* ASCII; the emoji of the reply templates are written as :shortcodes:.   *)
(* Scores are exact rationals <<numerator, denominator>>.                 *)
(*************************************************************************)
EXTENDS Integers, Sequences, FiniteSets, TLC

(* Python string primitives *)

Min(a, b) == IF a < b THEN a ELSE b

Max(a, b) == IF a > b THEN a ELSE b

SetMax(S) == CHOOSE m \in S : \A n \in S : n <= m

CharAt(s, i) == SubSeq(s, i, i)

\* s[i:] with a 1-based start
From(s, i) == SubSeq(s, i, Len(s))

\* s[:n]
Prefix(s, n) == SubSeq(s, 1, Min(n, Len(s)))

UpperChars == "ABCDEFGHIJKLMNOPQRSTUVWXYZ"

LowerChars == "abcdefghijklmnopqrstuvwxyz"

DigitChars == "0123456789"

\* sub in s
Contains(sub, s) ==
    \E i \in 0..(Len(s) - Len(sub)) : SubSeq(s, i + 1, i + Len(sub)) = sub

\* the set of the characters of a string
Chars(class) == {CharAt(class, i) : i \in 1..Len(class)}

UpperSet == Chars(UpperChars)

DigitSet == Chars(DigitChars)

WordSet == Chars(LowerChars) \cup UpperSet \cup DigitSet \cup {"_"}

LowerOf ==
    [c \in UpperSet |->
        CharAt(LowerChars, CHOOSE i \in 1..26 : CharAt(UpperChars, i) = c)]

LowerChar(c) == IF c \in UpperSet THEN LowerOf[c] ELSE c

\* s.lower(), computed on the two halves of s
RECURSIVE lower(_)
lower(s) ==
    IF Len(s) <= 1 THEN LowerChar(s)
    ELSE LET h == Len(s) \div 2
         IN  lower(SubSeq(s, 1, h)) \o lower(From(s, h + 1))

\* \s
IsSpace(c) == c = " " \/ c = "\n" \/ c = "\t"

\* \w
IsWord(c) == c \in WordSet

IsDigit(c) == c \in DigitSet

RECURSIVE lstrip(_)
lstrip(s) == IF s # "" /\ IsSpace(CharAt(s, 1)) THEN lstrip(From(s, 2)) ELSE s

RECURSIVE rstrip(_)
rstrip(s) ==
    IF s # "" /\ IsSpace(CharAt(s, Len(s)))
    THEN rstrip(SubSeq(s, 1, Len(s) - 1))
    ELSE s

strip(s) == rstrip(lstrip(s))

\* s.split(sep) for a one-character separator: empty pieces are kept
RECURSIVE SplitOn(_, _)
SplitOn(s, sep) ==
    IF ~Contains(sep, s) THEN <<s>>
    ELSE LET k == CHOOSE i \in 1..Len(s) :
                      /\ CharAt(s, i) = sep
                      /\ \A j \in 1..(i - 1) : CharAt(s, j) # sep
         IN  <<SubSeq(s, 1, k - 1)>> \o SplitOn(From(s, k + 1), sep)

\* s.split(): pieces between runs of whitespace, empty pieces dropped
RECURSIVE split(_)
split(s) ==
    LET t == lstrip(s)
    IN  IF t = "" THEN <<>>
        ELSE LET ends == {i \in 1..Len(t) : IsSpace(CharAt(t, i))}
                 k == IF ends = {} THEN Len(t) + 1
                      ELSE CHOOSE i \in ends : \A j \in ends : i <= j
             IN  <<SubSeq(t, 1, k - 1)>> \o split(From(t, k))

\* sep.join(parts)
RECURSIVE join(_, _)
join(sep, parts) ==
    IF parts = <<>> THEN ""
    ELSE IF Len(parts) = 1 THEN parts[1]
    ELSE parts[1] \o sep \o join(sep, Tail(parts))

\* s.rfind(c) as a 1-based position, 0 when absent (Python: 0-based, -1)
rfind(s, c) ==
    LET at == {i \in 1..Len(s) : CharAt(s, i) = c}
    IN  IF at = {} THEN 0 ELSE SetMax(at)

\* any(w in text for w in words)
AnyIn(words, text) == \E i \in 1..Len(words) : Contains(words[i], text)

StartsWithAt(s, i, p) ==
    /\ i + Len(p) - 1 <= Len(s)
    /\ SubSeq(s, i, i + Len(p) - 1) = p

(* clean_scraped_text and extract_product_info *)

Lit(a) == [kind |-> "lit", a |-> a, b |-> ""]

Span(a, b) == [kind |-> "span", a |-> a, b |-> b]

\* the patterns in the order they are applied; Span(a, b) is a.*b and the
\* last one is Rs \d+\.\d+
noise_patterns ==
    << Lit("skip to content"),
       Lit("your cart is empty"),
       Lit("continue shopping"),
       Lit("have an account?"),
       Lit("log in to check out"),
       Lit("estimated total"),
       Span("taxes", "calculated at checkout"),
       Lit("check out"),
       Lit("loading..."),
       Lit("add to cart"),
       Lit("view cart"),
       Span("home", "clearance sale"),
       Span("co-ord sets", "elegant floral"),
       Span("cart", "loading"),
       [kind |-> "price", a |-> "rs ", b |-> "."] >>

\* end of the maximal run of digits that starts at i (i itself when none)
RECURSIVE DigitsEnd(_, _)
DigitsEnd(s, i) ==
    IF i <= Len(s) /\ IsDigit(CharAt(s, i)) THEN DigitsEnd(s, i + 1) ELSE i

\* The position just after the match of pat that starts at i in the
\* lower-cased text low (re.IGNORECASE), 0 when pat does not match at i.
MatchEnd(pat, low, i) ==
    IF ~StartsWithAt(low, i, pat.a) THEN 0
    ELSE LET k == i + Len(pat.a)
         IN  CASE pat.kind = "lit" -> k
               [] pat.kind = "span" ->
                    \* greedy .* that does not cross a newline
                    LET js == {j \in k..Len(low) :
                                  /\ StartsWithAt(low, j, pat.b)
                                  /\ \A n \in k..(j - 1) : CharAt(low, n) # "\n"}
                    IN  IF js = {} THEN 0 ELSE SetMax(js) + Len(pat.b)
               [] pat.kind = "price" ->
                    LET d1 == DigitsEnd(low, k)
                        d2 == DigitsEnd(low, d1 + 1)
                    IN  IF d1 > k /\ StartsWithAt(low, d1, pat.b) /\ d2 > d1 + 1
                        THEN d2 ELSE 0

\* re.sub(pat, '', text, flags=re.IGNORECASE), scanning from position i
\* (leftmost match first, matches do not overlap)
RECURSIVE ReSubFrom(_, _, _, _)
ReSubFrom(pat, text, low, i) ==
    LET starts == {j \in i..Len(text) : MatchEnd(pat, low, j) > 0}
    IN  IF starts = {} THEN From(text, i)
        ELSE LET j == CHOOSE m \in starts : \A n \in starts : m <= n
             IN  SubSeq(text, i, j - 1)
                 \o ReSubFrom(pat, text, low, MatchEnd(pat, low, j))

re_sub(pat, text) == ReSubFrom(pat, text, lower(text), 1)

RECURSIVE RemoveNoise(_, _)
RemoveNoise(text, n) ==
    IF n > Len(noise_patterns) THEN text
    ELSE RemoveNoise(re_sub(noise_patterns[n], text), n + 1)

\* re.sub(r'\s+', ' ', text)
RECURSIVE CollapseSpace(_)
CollapseSpace(s) ==
    LET spaces == {i \in 1..Len(s) : IsSpace(CharAt(s, i))}
    IN  IF spaces = {} THEN s
        ELSE LET k == CHOOSE i \in spaces : \A j \in spaces : i <= j
             IN  SubSeq(s, 1, k - 1) \o " " \o CollapseSpace(lstrip(From(s, k)))

\* re.sub(r'\n+', '\n', text)
RECURSIVE DropNewlines(_)
DropNewlines(s) ==
    IF s # "" /\ CharAt(s, 1) = "\n" THEN DropNewlines(From(s, 2)) ELSE s

RECURSIVE CollapseNewlines(_)
CollapseNewlines(s) ==
    LET breaks == {i \in 1..Len(s) : CharAt(s, i) = "\n"}
    IN  IF breaks = {} THEN s
        ELSE LET k == CHOOSE i \in breaks : \A j \in breaks : i <= j
             IN  SubSeq(s, 1, k - 1) \o "\n"
                 \o CollapseNewlines(DropNewlines(From(s, k)))

\* re.match(r'^[^\w\s]+$', line)
OnlySpecial(line) ==
    /\ line # ""
    /\ \A i \in 1..Len(line) :
          ~IsWord(CharAt(line, i)) /\ ~IsSpace(CharAt(line, i))

StripAll(seq) == [i \in 1..Len(seq) |-> strip(seq[i])]

NonBlank(line) == strip(line) # ""

Meaningful(line) == Len(line) > 10 /\ ~OnlySpecial(line)

clean_scraped_text(text) ==
    IF text = "" THEN ""
    ELSE LET cleaned == CollapseNewlines(CollapseSpace(RemoveNoise(text, 1)))
             lines == StripAll(SelectSeq(SplitOn(cleaned, "\n"), NonBlank))
             meaningful_lines == SelectSeq(lines, Meaningful)
         IN  strip(join(" ", meaningful_lines))

nav_terms == <<"home", "cart", "checkout", "log in", "sign up">>

Descriptive(sent) ==
    LET word_count == Len(split(sent))
    IN  /\ 5 <= word_count
        /\ word_count <= 100
        /\ ~AnyIn(nav_terms, lower(sent))

\* return result + '.' if result else cleaned[:300]
ResultOr(result, cleaned) ==
    IF result # "" THEN result \o "." ELSE Prefix(cleaned, 300)

\* lines 83-88 for the sentences kept by the loop
FirstSentences(product_sentences, cleaned) ==
    IF product_sentences # <<>>
    THEN ResultOr(join(". ", SubSeq(product_sentences, 1,
                                    Min(3, Len(product_sentences)))),
                  cleaned)
    ELSE Prefix(cleaned, 300)

\* lines 70-88 for the cleaned text
ExtractFrom(cleaned) ==
    FirstSentences(SelectSeq(StripAll(SplitOn(cleaned, ".")), Descriptive),
                   cleaned)

extract_product_info(text) == ExtractFrom(clean_scraped_text(text))

(* Scores: exact rationals <<numerator, denominator>> *)

Zero == <<0, 1>>

GT(a, b) == a[1] * b[2] > b[1] * a[2]

GE(a, b) == a[1] * b[2] >= b[1] * a[2]

SameScore(a, b) == a[1] * b[2] = b[1] * a[2]

(* detect_language *)

urdu_words == <<"mujhe", "kaun", "kon", "kaha", "dikhao", "dikho",
                "kya", "kaise", "batao", "chahiye", "hai", "ki", "ap">>

\* The text domain is ASCII, so the test for a character in the Arabic
\* block U+0600..U+06FF finds nothing.
detect_language(text) ==
    IF AnyIn(urdu_words, lower(text)) THEN "urdu" ELSE "english"

(* The PageContent table: a sequence of rows in the order of            *)
(* PageContent.objects.all(), each row                                  *)
(* [url, title, content, page_type, is_active].                         *)

Urls(pages) == {pages[i].url : i \in 1..Len(pages)}

Range(seq) == {seq[i] : i \in 1..Len(seq)}

price_keywords == <<"sasta", "cheap", "mehnga", "expensive", "price", "budget">>

colors == <<"red", "blue", "green", "black", "white", "pink", "yellow", "purple">>

categories == <<"dress", "saree", "suit", "kurta", "shirt", "pant", "dupatta">>

\* (None, 0, None)
NoneResult == [found |-> FALSE, excerpt |-> "", score |-> Zero, title |-> ""]

Result(excerpt, score, title) ==
    [found |-> TRUE, excerpt |-> excerpt, score |-> score, title |-> title]

\* page.title or "Product"
TitleOr(title, default) == IF title = "" THEN default ELSE title

\* ScoreRules with the excerpt set for every keyword ratio
ScoreRules_ExcerptAlways(user_query_lower, title_lower, clean_content, clean_content_lower) ==
    LET query_words == SelectSeq(split(user_query_lower), LAMBDA w : Len(w) > 2)
        query_colors == SelectSeq(colors, LAMBDA c : Contains(c, user_query_lower))
        query_categories ==
            SelectSeq(categories, LAMBDA c : Contains(c, user_query_lower))
        color_match == AnyIn(query_colors, clean_content_lower)
        category_match == AnyIn(query_categories, clean_content_lower)
        matches ==
            Len(SelectSeq(query_words, LAMBDA w : Contains(w, clean_content_lower)))
        keyword == <<matches, Len(query_words)>>
    IN  IF Contains(user_query_lower, clean_content_lower)
        THEN [score |-> <<9, 10>>, excerpt |-> clean_content]
        ELSE IF Contains(user_query_lower, title_lower)
        THEN [score |-> <<17, 20>>, excerpt |-> clean_content]
        ELSE IF query_colors # <<>> /\ query_categories # <<>>
        THEN IF color_match /\ category_match
             THEN [score |-> <<8, 10>>, excerpt |-> clean_content]
             ELSE IF color_match \/ category_match
             THEN [score |-> <<6, 10>>, excerpt |-> clean_content]
             ELSE [score |-> Zero, excerpt |-> ""]
        ELSE IF query_words # <<>>
        THEN [score |-> keyword,
              excerpt |-> clean_content]
        ELSE [score |-> Zero, excerpt |-> ""]

\* The body of the loop over the pages: the score and the excerpt that the
\* rules give to one page.
\* the rules of lines 156-184 for one page
ScoreRules(user_query_lower, title_lower, clean_content, clean_content_lower) ==
    LET query_words == SelectSeq(split(user_query_lower), LAMBDA w : Len(w) > 2)
        query_colors == SelectSeq(colors, LAMBDA c : Contains(c, user_query_lower))
        query_categories ==
            SelectSeq(categories, LAMBDA c : Contains(c, user_query_lower))
        color_match == AnyIn(query_colors, clean_content_lower)
        category_match == AnyIn(query_categories, clean_content_lower)
        matches ==
            Len(SelectSeq(query_words, LAMBDA w : Contains(w, clean_content_lower)))
        keyword == <<matches, Len(query_words)>>
    IN  IF Contains(user_query_lower, clean_content_lower)
        THEN [score |-> <<9, 10>>, excerpt |-> clean_content]
        ELSE IF Contains(user_query_lower, title_lower)
        THEN [score |-> <<17, 20>>, excerpt |-> clean_content]
        ELSE IF query_colors # <<>> /\ query_categories # <<>>
        THEN IF color_match /\ category_match
             THEN [score |-> <<8, 10>>, excerpt |-> clean_content]
             ELSE IF color_match \/ category_match
             THEN [score |-> <<6, 10>>, excerpt |-> clean_content]
             ELSE [score |-> Zero, excerpt |-> ""]
        ELSE IF query_words # <<>>
        THEN [score |-> keyword,
              excerpt |-> IF GT(keyword, <<4, 10>>) THEN clean_content ELSE ""]
        ELSE [score |-> Zero, excerpt |-> ""]

\* clean_content_lower = clean_content.lower()
ScoreCleaned(user_query_lower, title_lower, clean_content) ==
    ScoreRules(user_query_lower, title_lower, clean_content,
               lower(clean_content))

\* score and excerpt of one page at the end of the loop body
PageMatch(user_query_lower, title, content) ==
    ScoreCleaned(user_query_lower, lower(title), extract_product_info(content))

(* The rows the table can hold.  A product row has the content that     *)
(* save_product_to_db builds, a collection row the content of            *)
(* save_collection_to_db, and the home page is the row scrape_all_pages  *)
(* adds.                                                                 *)

domain == "https://silkandsaffron.store/"

Row(url, title, content, page_type) ==
    [url |-> url, title |-> title, content |-> content,
     page_type |-> page_type, is_active |-> TRUE]

Product(handle, title, price, description) ==
    Row(domain \o "products/" \o handle, title,
        "Product: " \o title \o "\n\nPrice: Rs." \o price
        \o "\n\nStatus: Available\n\nDescription: " \o description,
        "product")

Collection(handle, title, description) ==
    Row(domain \o "collections/" \o handle, title,
        "Collection: " \o title \o "\n\nDescription: " \o description,
        "collection")

HomePage ==
    Row(domain, "Silk and Saffron - Home",
        "Welcome to Silk and Saffron. Browse our collections of premium Pakistani clothing including co-ord sets, dresses, and more.",
        "page")

Products ==
    << Product("blue-cotton-kurta", "Blue Cotton Kurta", "500.00",
               "Blue cotton kurta with white embroidery"),
       Product("red-silk-dress", "Red Silk Dress", "1200.00",
               "A flowing red evening dress in pure silk"),
       Product("pink-lawn-suit", "Pink Lawn Suit", "300.00",
               "Pink lawn suit with a printed dupatta"),
       Product("green-chiffon-saree", "Green Chiffon Saree", "2,500.00",
               "Green chiffon saree with a golden border"),
       Product("black-velvet-shirt", "Black Velvet Shirt", "900",
               "Black velvet shirt for winter evenings"),
       Product("yellow-linen-pant", "Yellow Linen Pant", "750.50",
               "Yellow linen pant with a relaxed fit"),
       Product("white-cotton-dupatta", "White Cotton Dupatta", "450.00",
               "White cotton dupatta with lace edges"),
       Product("purple-silk-saree", "Purple Silk Saree", "3,200.00",
               "Purple silk saree with silver thread work"),
       Product("maroon-khaddar-suit", "Maroon Khaddar Suit", "1100.00",
               "Maroon khaddar suit for cold days"),
       Product("grey-lawn-kurta", "Grey Lawn Kurta", "650.00",
               "Grey lawn kurta with simple buttons"),
       Product("navy-silk-shirt", "Navy Silk Shirt", "1300.00",
               "Navy silk shirt with a classic collar"),
       Product("teal-chiffon-dress", "Teal Chiffon Dress", "1800.00",
               "Teal chiffon dress with long sleeves"),
       Product("ivory-cotton-suit", "Ivory Cotton Suit", "800.00",
               "Ivory cotton suit with tonal embroidery") >>

Pool ==
    SubSeq(Products, 1, 3)
    \o << HomePage,
          Collection("summer", "Summer Collection",
                     "Light lawn suits in pink and yellow for the summer season") >>
    \o SubSeq(Products, 4, Len(Products))

(* The texts of the requests *)

QueryTexts ==
    { "", "red dress", "mujhe red dress dikhao", "Available", "home",
      "red dress cotton embroidery",
      "status available description silk premium clothing",
      "cheap dress", "price", "expensive", "Hello", "thanks" }

\* the query texts sent under the fallback intent
FallbackQueryTexts ==
    { "", "Hello", "thanks", "red dress", "price", "mujhe red dress dikhao" }

\* the query texts of direct calls of search_in_scraped_content
SearchQueryTexts ==
    { "red dress", "Available", "red dress cotton embroidery",
      "status available description silk premium clothing", "price" }

FifoQueryTexts ==
    { "available", "velvet", "linen", "khaddar", "cheap dress" }

RankQueryTexts ==
    { "status available description silk premium clothing", "red dress",
      "available", "home" }

FifoFallbackQueryTexts == { "hello", "velvet" }

AdminQueryTexts == { "red dress", "available", "cheap dress" }

\* PageMatch on the rows and queries above, computed once
\* the query texts sent to a table with priced and unpriced rows
PriceQueryTexts ==
    { "cheap dress", "expensive", "price", "sasta suit dikhao", "budget",
      "mehnga", "available" }

\* a phrase every product page holds, and four keywords of which every
\* product page holds three and one product page all four
ServedQueryTexts ==
    { "available", "status available description velvet",
      "status available description linen" }

\* three keywords of which a page of the table holds one, three of which
\* it holds two, and queries that the other rules and the price path answer
ScoreQueryTexts ==
    { "silk velvet chiffon", "pure silk fabric", "available", "red dress",
      "blue dress", "cheap dress",
      "status available description silk premium clothing" }

KnownQueries ==
    {lower(q) : q \in QueryTexts \cup FifoQueryTexts \cup RankQueryTexts
                      \cup AdminQueryTexts \cup FifoFallbackQueryTexts
                      \cup PriceQueryTexts \cup ServedQueryTexts
                      \cup ScoreQueryTexts}

\* a collection whose description quotes a price
SaleCollection ==
    Collection("sale", "Sale Collection", "Everything under Rs.200 this week")

\* the table of the price queries: the sale collection, then the products
PricePool == <<SaleCollection>> \o Products

\* products that answer "red dress" by different rules: by the phrase in
\* the title only (the sentence that holds the title names "home" and is
\* dropped from the cleaned content), by the phrase in the content, and by
\* colour and category
RedRows ==
    << Product("red-dress-home", "Red Dress for Home", "1500.00",
               "A soft red gown, a dress for quiet evenings"),
       Product("crimson-gown", "Crimson Gown", "900.00",
               "A red dress for every evening of the year"),
       Product("red-lawn-dress", "Red Lawn Dress", "700.00",
               "A light red summer dress in printed lawn") >>

RedPool == <<Products[2]>> \o RedRows

KnownRows == Pool \o <<SaleCollection>> \o RedRows

KnownPages ==
    {<<KnownRows[k].title, KnownRows[k].content>> : k \in 1..Len(KnownRows)}

ExtractTable ==
    [c \in {KnownRows[k].content : k \in 1..Len(KnownRows)} |->
        extract_product_info(c)]

\* extract_product_info(content)
Extracted(content) == ExtractTable[content]

\* extract_product_info(content).lower()
CleanLowerTable ==
    [c \in DOMAIN ExtractTable |-> lower(ExtractTable[c])]

CleanLower(content) == CleanLowerTable[content]

MatchTable ==
    [q \in KnownQueries |-> [k \in KnownPages |-> PageMatch(q, k[1], k[2])]]

Matched(user_query_lower, page) ==
    MatchTable[user_query_lower][<<page.title, page.content>>]

\* Eligible without the test of LAST_SUGGESTED_PRODUCTS
Eligible_IgnoresRecent(m, threshold, url, recent) ==
    /\ GE(m.score, threshold)
    /\ m.excerpt # ""

\* if score >= threshold and excerpt: if page_id not in LAST_SUGGESTED_PRODUCTS
Eligible(m, threshold, url, recent) ==
    /\ GE(m.score, threshold)
    /\ m.excerpt # ""
    /\ url \notin Range(recent)

\* CandidateOf for a page that is in the list as for one that is not
CandidateOf_Unchecked(page, m, threshold, recent) ==
    IF GE(m.score, threshold) /\ m.excerpt # ""
    THEN << [url |-> page.url, score |-> m.score, excerpt |-> m.excerpt,
             title |-> TitleOr(page.title, "Product")] >>
    ELSE <<>>

\* what the loop body appends to all_matches for one page
CandidateOf(page, m, threshold, recent) ==
    IF Eligible(m, threshold, page.url, recent)
    THEN << [url |-> page.url, score |-> m.score, excerpt |-> m.excerpt,
             title |-> TitleOr(page.title, "Product")] >>
    ELSE <<>>

\* all_matches, before it is sorted
RECURSIVE Candidates(_, _, _, _)
Candidates(user_query_lower, threshold, pages, recent) ==
    IF pages = <<>> THEN <<>>
    ELSE CandidateOf(Head(pages), Matched(user_query_lower, Head(pages)),
                     threshold, recent)
         \o Candidates(user_query_lower, threshold, Tail(pages), recent)

\* all_matches.sort(key=score, reverse=True): a stable sort, equal scores
\* keep the order of the table
RECURSIVE InsertByScore(_, _)
InsertByScore(m, sorted) ==
    IF sorted = <<>> THEN <<m>>
    ELSE IF GT(m.score, Head(sorted).score) THEN <<m>> \o sorted
    ELSE <<Head(sorted)>> \o InsertByScore(m, Tail(sorted))

RECURSIVE SortByScore(_)
SortByScore(ms) ==
    IF ms = <<>> THEN <<>>
    ELSE InsertByScore(ms[Len(ms)], SortByScore(SubSeq(ms, 1, Len(ms) - 1)))

\* Picks with random.choice also above 0.7
Picks_AlwaysTopThree(all_matches) == 1..Min(3, Len(all_matches))

\* Picks with top_matches = all_matches[:4]
Picks_TopFour(all_matches) ==
    IF GT(all_matches[1].score, <<7, 10>>) THEN {1}
    ELSE 1..Min(4, Len(all_matches))

\* the ranks random.choice may return
Picks(all_matches) ==
    IF GT(all_matches[1].score, <<7, 10>>) THEN {1}
    ELSE 1..Min(3, Len(all_matches))

\* Track with pop() in place of pop(0)
Track_DropsNewest(recent, url) ==
    LET appended == Append(recent, url)
    IN  IF Len(appended) > 10 THEN SubSeq(appended, 1, 10) ELSE appended

\* Track with a list of nine
Track_KeepsNine(recent, url) ==
    LET appended == Append(recent, url)
    IN  IF Len(appended) > 9 THEN Tail(appended) ELSE appended

\* Track without the append
Track_NoAppend(recent, url) == recent

\* LAST_SUGGESTED_PRODUCTS.append(url); if len(...) > 10: pop(0)
Track(recent, url) ==
    LET appended == Append(recent, url)
    IN  IF Len(appended) > 10 THEN Tail(appended) ELSE appended

(* handle_price_query *)

DigitValue(c) == (CHOOSE i \in 1..10 : CharAt(DigitChars, i) = c) - 1

\* int() of a string of digits
RECURSIVE ParseInt(_)
ParseInt(digits) ==
    IF digits = "" THEN 0
    ELSE ParseInt(SubSeq(digits, 1, Len(digits) - 1)) * 10
         + DigitValue(CharAt(digits, Len(digits)))

\* end of the longest (?:,\d{3})* that starts at i
RECURSIVE ThousandsEnd(_, _)
ThousandsEnd(text, i) ==
    IF /\ StartsWithAt(text, i, ",")
       /\ i + 3 <= Len(text)
       /\ \A k \in (i + 1)..(i + 3) : IsDigit(CharAt(text, k))
    THEN ThousandsEnd(text, i + 4)
    ELSE i

\* Rs\.?(\d+(?:,\d{3})*(?:\.\d{2})?) matched at position i: the price of
\* group(1) in hundredths, float(group(1).replace(',', '')) * 100, and -1
\* when the pattern does not match at i.
PriceAt(text, i) ==
    IF ~StartsWithAt(text, i, "Rs") THEN -1
    ELSE LET d0 == IF StartsWithAt(text, i + 2, ".") THEN i + 3 ELSE i + 2
             d1 == DigitsEnd(text, d0)
             d2 == ThousandsEnd(text, d1)
             cents == /\ StartsWithAt(text, d2, ".")
                      /\ d2 + 2 <= Len(text)
                      /\ IsDigit(CharAt(text, d2 + 1))
                      /\ IsDigit(CharAt(text, d2 + 2))
         IN  IF d1 = d0 THEN -1
             ELSE ParseInt(join("", SplitOn(SubSeq(text, d0, d2 - 1), ","))) * 100
                  + (IF cents THEN ParseInt(SubSeq(text, d2 + 1, d2 + 2)) ELSE 0)

\* re.search of the price pattern: the leftmost match, -1 when there is none
PriceSearch(text) ==
    LET starts == {i \in 1..Len(text) : PriceAt(text, i) >= 0}
    IN  IF starts = {} THEN -1
        ELSE PriceAt(text, CHOOSE i \in starts : \A j \in starts : i <= j)

\* PricedProduct over objects.all() in place of filter(page_type='product')
PricedProduct_AnyType(product, price) ==
    IF price >= 0
    THEN << [url |-> product.url, title |-> product.title, price |-> price,
             content |-> Prefix(product.content, 300)] >>
    ELSE <<>>

\* what the loop body appends to products_with_price for one row
PricedProduct(product, price) ==
    IF product.page_type = "product" /\ price >= 0
    THEN << [url |-> product.url, title |-> product.title, price |-> price,
             content |-> Prefix(product.content, 300)] >>
    ELSE <<>>

\* products_with_price, in the order of the table
RECURSIVE ProductsWithPrice(_)
ProductsWithPrice(pages) ==
    IF pages = <<>> THEN <<>>
    ELSE PricedProduct(Head(pages), PriceSearch(Head(pages).content))
         \o ProductsWithPrice(Tail(pages))

\* list.sort(key=price) and list.sort(key=price, reverse=True): both stable
RECURSIVE InsertByPrice(_, _, _)
InsertByPrice(p, sorted, descending) ==
    IF sorted = <<>> THEN <<p>>
    ELSE IF (IF descending THEN p.price > Head(sorted).price
             ELSE p.price < Head(sorted).price)
    THEN <<p>> \o sorted
    ELSE <<Head(sorted)>> \o InsertByPrice(p, Tail(sorted), descending)

RECURSIVE SortByPrice(_, _)
SortByPrice(ps, descending) ==
    IF ps = <<>> THEN <<>>
    ELSE InsertByPrice(ps[Len(ps)],
                       SortByPrice(SubSeq(ps, 1, Len(ps) - 1), descending),
                       descending)

cheap_keywords == <<"sasta", "cheap", "budget", "affordable">>

\* products_with_price[:3]
FirstThree(sorted) == SubSeq(sorted, 1, Min(3, Len(sorted)))

\* selected_products
PriceSelection(query_lower, pages) ==
    FirstThree(SortByPrice(ProductsWithPrice(pages),
                           ~AnyIn(cheap_keywords, query_lower)))

\* f"{i}. {p['title']} - Rs.{int(p['price'])}\n" for i = n, n + 1, ...
RECURSIVE PriceLines(_, _)
PriceLines(selected, n) ==
    IF selected = <<>> THEN ""
    ELSE ToString(n) \o ". " \o Head(selected).title \o " - Rs."
         \o ToString(Head(selected).price \div 100) \o "\n"
         \o PriceLines(Tail(selected), n + 1)

\* lines 483-515 for the products selected
PriceAnswer(query_lower, language, selected_products) ==
    LET header == IF AnyIn(cheap_keywords, query_lower)
                  THEN IF language = "urdu"
                       THEN ":star2: Sabse saste options:\n\n"
                       ELSE ":star2: Most affordable options:\n\n"
                  ELSE ":star2: Premium options:\n\n"
        footer == IF language = "urdu"
                  THEN "\nKaunsa dekhna chahein? :blush:"
                  ELSE "\nWhich one would you like to see? :blush:"
    IN  [result |->
             IF selected_products = <<>> THEN NoneResult
             ELSE Result(header \o PriceLines(selected_products, 1) \o footer,
                         <<95, 100>>, "Price Comparison"),
         selected |-> selected_products]

\* the triple returned, with the products it lists
handle_price_query(query_lower, pages) ==
    PriceAnswer(query_lower, detect_language(query_lower),
                PriceSelection(query_lower, pages))

(* search_in_scraped_content: the set of outcomes of one call, one per    *)
(* value random.choice can return.  An outcome is the returned triple,    *)
(* the new LAST_SUGGESTED_PRODUCTS and a record of what the call did.     *)

SearchOutcome(path, result, recent, url, rank, ncand, listed, evicted) ==
    [path |-> path, result |-> result, recent |-> recent, url |-> url,
     rank |-> rank, ncand |-> ncand, listed |-> listed, evicted |-> evicted]

\* lines 197-214: the selection among the sorted all_matches
Selected(all_matches, recent) ==
    IF all_matches # <<>>
    THEN { SearchOutcome("general",
                         Result(all_matches[r].excerpt, all_matches[r].score,
                                all_matches[r].title),
                         Track(recent, all_matches[r].url),
                         all_matches[r].url, r, Len(all_matches), <<>>,
                         Len(Track(recent, all_matches[r].url)) <= Len(recent))
           : r \in Picks(all_matches) }
    ELSE { SearchOutcome("general", NoneResult, recent, "", 0, 0, <<>>,
                         FALSE) }

\* lines 129-132: return handle_price_query(user_query_lower)
PriceOutcome(priced, recent) ==
    SearchOutcome("price", priced.result, recent, "", 0, 0,
                  [i \in 1..Len(priced.selected) |-> priced.selected[i].url],
                  FALSE)

\* the function after user_query_lower = user_query.lower()
SearchLowered(user_query_lower, threshold, pages, recent) ==
    IF AnyIn(price_keywords, user_query_lower)
    THEN { PriceOutcome(handle_price_query(user_query_lower, pages), recent) }
    ELSE Selected(SortByScore(Candidates(user_query_lower, threshold, pages,
                                         recent)),
                  recent)

search_in_scraped_content(user_query, threshold, pages, recent) ==
    SearchLowered(lower(user_query), threshold, pages, recent)

(* format_scraped_response *)

\* lines 226-231: excerpt_clean[:300] cut after its last full stop
CutAt(cut, last_period) ==
    IF last_period - 1 > 100 THEN Prefix(cut, last_period) ELSE cut \o "..."

\* lines 224-231
Shorten(stripped) ==
    IF Len(stripped) > 300
    THEN CutAt(Prefix(stripped, 300), rfind(Prefix(stripped, 300), "."))
    ELSE stripped

\* Phrase that never shows the title
Phrase_Untitled(excerpt_clean, language, title) ==
    IF language = "urdu"
    THEN excerpt_clean \o "\n\n:speech_balloon: Kya aur janana chahein?"
    ELSE excerpt_clean \o "\n\nNeed more info?"

\* lines 234-245
Phrase(excerpt_clean, language, title) ==
    LET titled == title # "" /\ lower(title) # "product"
    IN  IF language = "urdu"
        THEN IF titled
             THEN ":sparkles: **" \o title \o "**\n\n" \o excerpt_clean
                  \o "\n\n:speech_balloon: Aur details chahiye?"
             ELSE excerpt_clean \o "\n\n:speech_balloon: Kya aur janana chahein?"
        ELSE IF titled
             THEN ":sparkles: **" \o title \o "**\n\n" \o excerpt_clean
                  \o "\n\nWant more details?"
             ELSE excerpt_clean \o "\n\nNeed more info?"

format_scraped_response(excerpt, query, language, title) ==
    Phrase(Shorten(strip(excerpt)), language, title)

(* get_diverse_product_samples and get_direct_alternatives *)

\* get_diverse_product_samples without LAST_SUGGESTED_PRODUCTS.clear()
get_diverse_product_samples_KeepsList(limit, pages, recent) ==
    LET unseen == SelectSeq(pages, LAMBDA p : p.url \notin Range(recent))
        available_pages == IF unseen = <<>> THEN pages ELSE unseen
    IN  [available |-> available_pages,
         sampled |-> Len(available_pages) > limit,
         limit |-> limit,
         cleared |-> unseen = <<>>,
         recent |-> recent]

\* all_pages, available_pages and the list after one call.  When sampled
\* is TRUE the caller receives random.sample(available_pages, limit),
\* otherwise available_pages itself.
get_diverse_product_samples(limit, pages, recent) ==
    LET unseen == SelectSeq(pages, LAMBDA p : p.url \notin Range(recent))
        available_pages == IF unseen = <<>> THEN pages ELSE unseen
    IN  [available |-> available_pages,
         sampled |-> Len(available_pages) > limit,
         limit |-> limit,
         cleared |-> unseen = <<>>,
         recent |-> IF unseen = <<>> THEN <<>> ELSE recent]

\* The values of products[:n]: the first n pages of available_pages, or,
\* of a random sample, any n different pages of it in any order.
FirstOfSample(sample, n) ==
    LET avail == sample.available
        k == Min(n, IF sample.sampled THEN sample.limit ELSE Len(avail))
    IN  IF sample.sampled
        THEN {[i \in 1..k |-> avail[f[i]]] :
                 f \in {g \in [1..k -> 1..Len(avail)] :
                           \A a, b \in 1..k : a # b => g[a] # g[b]}}
        ELSE {SubSeq(avail, 1, k)}

\* re.search(r'Price:\s*([^\n]+)', content): group(1), "" when no match
PriceLabel(content) ==
    LET RunEnd(i) == CHOOSE e \in i..(Len(content) + 1) :
                         /\ \A k \in i..(e - 1) : IsSpace(CharAt(content, k))
                         /\ e > Len(content) \/ ~IsSpace(CharAt(content, e))
        \* where group(1) can start for the label that starts at i
        GroupStarts(i) == {k \in (i + 6)..RunEnd(i + 6) :
                              k <= Len(content) /\ CharAt(content, k) # "\n"}
        labels == {i \in 1..Len(content) :
                      StartsWithAt(content, i, "Price:") /\ GroupStarts(i) # {}}
    IN  IF labels = {} THEN ""
        ELSE LET i == CHOOSE m \in labels : \A n \in labels : m <= n
                 k == SetMax(GroupStarts(i))
             IN  SplitOn(From(content, k), "\n")[1]

RECURSIVE SuggestionLines(_)
SuggestionLines(products) ==
    IF products = <<>> THEN <<>>
    ELSE LET p == Head(products)
             price == PriceLabel(p.content)
         IN  << ":black_small_square: " \o TitleOr(p.title, "Product")
                \o (IF price # "" THEN " - " \o price ELSE "") >>
             \o SuggestionLines(Tail(products))

\* the set of outcomes [answer, recent, listed, cleared]
get_direct_alternatives(user_query, language, pages, recent) ==
    LET sample == get_diverse_product_samples(5, pages, recent)
    IN  IF sample.available = <<>>
        THEN { [answer |-> IF language = "urdu"
                           THEN "Maaf kijiye! Abhi products load nahi ho rahe. Thodi der baad try karein."
                           ELSE "Sorry! Products not available right now. Please try again later.",
                recent |-> sample.recent, listed |-> <<>>,
                cleared |-> sample.cleared] }
        ELSE { [answer |->
                    (IF language = "urdu"
                     THEN "Yeh options dekh sakte hain:\n\n"
                          \o join("\n", SuggestionLines(products))
                          \o "\n\nKaunsa pasand aaya? :blush:"
                     ELSE "Here are some options:\n\n"
                          \o join("\n", SuggestionLines(products))
                          \o "\n\nWhich one would you like to know more about? :blush:"),
                recent |-> sample.recent,
                listed |-> [i \in 1..Len(products) |-> products[i].url],
                cleared |-> sample.cleared]
               : products \in FirstOfSample(sample, 3) }

(* The intent handlers: the set of outcomes                              *)
(* [answer, recent, branch, search, alt] of one call.                    *)

NoSearch == SearchOutcome("none", NoneResult, <<>>, "", 0, 0, <<>>, FALSE)

NoAlternatives == [answer |-> "", recent |-> <<>>, listed |-> <<>>,
                   cleared |-> FALSE]

HandlerOutcome(answer, recent, branch, search, alt) ==
    [answer |-> answer, recent |-> recent, branch |-> branch,
     search |-> search, alt |-> alt]

handle_llm_query_intent(user_query, pages, recent) ==
    LET language == detect_language(user_query)
        Continue(s) ==
            LET r == s.result
            IN  IF r.found /\ r.excerpt # "" /\ GT(r.score, <<7, 10>>)
                THEN { HandlerOutcome(
                           format_scraped_response(r.excerpt, user_query,
                                                   language, r.title),
                           s.recent, "high", s, NoAlternatives) }
                ELSE IF r.found /\ r.excerpt # "" /\ GT(r.score, <<4, 10>>)
                THEN { HandlerOutcome(
                           format_scraped_response(r.excerpt, user_query,
                                                   language, r.title),
                           s.recent, "medium", s, NoAlternatives) }
                ELSE { HandlerOutcome(a.answer, a.recent, "low", s, a)
                       : a \in get_direct_alternatives(user_query, language,
                                                       pages, s.recent) }
    IN  UNION { Continue(s) :
                s \in search_in_scraped_content(user_query, <<3, 10>>,
                                                pages, recent) }

greeting_words == <<"hello", "hi", "salam", "hey">>

thanks_words == <<"thanks", "thank you", "shukriya", "thankyou">>

name_words == <<"naam", "name", "kaun", "who">>

bye_words == <<"bye", "khuda hafiz", "goodbye">>

handle_fallback_intent(user_query, pages, recent) ==
    LET language == detect_language(user_query)
        query_lower == lower(user_query)
        Canned(urdu, english) ==
            { HandlerOutcome(IF language = "urdu" THEN urdu ELSE english,
                             recent, "canned", NoSearch, NoAlternatives) }
    IN  IF AnyIn(greeting_words, query_lower)
        THEN Canned("Salam! Main aapki kaise madad kar sakti hoon? Aap apne pasand ka product puch sakte hain. :blush:",
                    "Hello! How can I help you today? Feel free to ask about our products. :blush:")
        ELSE IF AnyIn(thanks_words, query_lower)
        THEN Canned("Khushi hui madad karke! Kuch aur chahiye? :blush:",
                    "You're welcome! Anything else I can help with? :blush:")
        ELSE IF AnyIn(name_words, query_lower)
        THEN Canned("Main Silk and Saffron ki assistant hoon. Aap mujhse products ke baare mein puch sakte hain! :dizzy:",
                    "I'm Silk and Saffron's assistant. Ask me about our products! :dizzy:")
        ELSE IF AnyIn(bye_words, query_lower)
        THEN Canned("Khuda hafiz! Dobara zaroor aaiyega. :wave:",
                    "Goodbye! Visit us again soon. :wave:")
        ELSE { HandlerOutcome(a.answer, a.recent, "alternatives", NoSearch, a)
               : a \in get_direct_alternatives(user_query, language,
                                               pages, recent) }

(* JSON values and requests *)

JNull == [t |-> "null", s |-> "", kv |-> {}]

JNum == [t |-> "number", s |-> "", kv |-> {}]

JList == [t |-> "list", s |-> "", kv |-> {}]

JStr(s) == [t |-> "str", s |-> s, kv |-> {}]

\* an object, as its set of <<key, value>> pairs
JObj(kv) == [t |-> "obj", s |-> "", kv |-> kv]

HasKey(obj, key) == \E p \in obj.kv : p[1] = key

\* obj.get(key, default) for a dict obj
Get(obj, key, default) ==
    IF HasKey(obj, key) THEN (CHOOSE p \in obj.kv : p[1] = key)[2] ELSE default

\* the body of a Dialogflow request
DialogflowBody(queryText, displayName) ==
    JObj({ <<"queryResult",
             JObj({ <<"queryText", queryText>>,
                    <<"intent", JObj({<<"displayName", displayName>>})>> })>> })

\* request.method, whether request.body decodes and parses as JSON, and
\* the parsed value
Request(method, parses, body) ==
    [method |-> method, parses |-> parses, body |-> body]

(* dialogflow_webhook: the set of outcomes [reply, recent, call] *)

Reply(status, fulfillmentText, fulfillmentMessages, source, error) ==
    [kind |-> "webhook", status |-> status,
     fulfillmentText |-> fulfillmentText,
     fulfillmentMessages |-> fulfillmentMessages,
     source |-> source, error |-> error]

\* what the last operation did: the route taken through the view, the
\* query, and the record of the search and of the alternatives
Call(route, query, threshold, branch, search, alt) ==
    [route |-> route, query |-> query, threshold |-> threshold,
     branch |-> branch, path |-> search.path, result |-> search.result,
     url |-> search.url, rank |-> search.rank, ncand |-> search.ncand,
     priced |-> search.listed, evicted |-> search.evicted,
     listed |-> alt.listed, cleared |-> alt.cleared]

NoCall == Call("none", "", Zero, "none", NoSearch, NoAlternatives)

\* An exception that leaves the view: the view has no handler for it, the
\* framework answers 500.
Unhandled(recent) ==
    [reply |-> Reply(500, "", <<>>, "", "exception"), recent |-> recent,
     call |-> Call("raised", "", Zero, "none", NoSearch, NoAlternatives)]

clarification_urdu ==
    "Maaf kijiye! Kya aap apna sawal thoda detail mein puch sakte hain?"

clarification_english == "Sorry! Could you please provide more details?"

\* return JsonResponse({"error": "Only POST allowed"}, status=405)
RejectMethod(recent) ==
    [reply |-> Reply(405, "", <<>>, "", "Only POST allowed"),
     recent |-> recent,
     call |-> Call("rejected", "", Zero, "none", NoSearch, NoAlternatives)]

\* RejectInvalid without status=400
RejectInvalid_Status200(recent) ==
    [reply |-> Reply(200, ":warning: Invalid request.", <<>>, "", ""),
     recent |-> recent,
     call |-> Call("rejected", "", Zero, "none", NoSearch, NoAlternatives)]

\* except: return JsonResponse({"fulfillmentText": ...}, status=400)
RejectInvalid(recent) ==
    [reply |-> Reply(400, ":warning: Invalid request.", <<>>, "", ""),
     recent |-> recent,
     call |-> Call("rejected", "", Zero, "none", NoSearch, NoAlternatives)]

dialogflow_webhook(req, pages, recent) ==
    IF req.method # "POST" THEN { RejectMethod(recent) }
    ELSE IF ~req.parses THEN { RejectInvalid(recent) }
    ELSE LET body == req.body
             queryResult == Get(body, "queryResult", JObj({}))
             user_query == Get(queryResult, "queryText", JStr(""))
             intentObj == Get(queryResult, "intent", JObj({}))
             intent == Get(intentObj, "displayName", JStr(""))
             Respond(h) ==
                 LET answer ==
                         IF h.answer = "" \/ Len(strip(h.answer)) < 5
                         THEN IF detect_language(user_query.s) = "urdu"
                              THEN clarification_urdu
                              ELSE clarification_english
                         ELSE h.answer
                 IN  [reply |-> Reply(200, answer, <<answer>>, "webhook", ""),
                      recent |-> h.recent,
                      call |-> Call(IF intent = JStr("LLMQueryIntent")
                                    THEN "llm" ELSE "fallback",
                                    user_query.s,
                                    IF h.search.path = "none" THEN Zero
                                    ELSE <<3, 10>>,
                                    h.branch, h.search, h.alt)]
         IN  \* body.get, queryResult.get and intent.get need a dict, and
             \* user_query.lower() and re.search(..., user_query) a str
             IF \/ body.t # "obj"
                \/ queryResult.t # "obj"
                \/ intentObj.t # "obj"
                \/ user_query.t # "str"
             THEN { Unhandled(recent) }
             ELSE IF intent = JStr("LLMQueryIntent")
             THEN { Respond(h) :
                    h \in handle_llm_query_intent(user_query.s, pages, recent) }
             ELSE { Respond(h) :
                    h \in handle_fallback_intent(user_query.s, pages, recent) }

(* webhook_health: the JSON it returns *)

webhook_health(pages, recent, cache) ==
    [kind |-> "health", status |-> 200,
     scraped_pages |-> Len(pages),
     cache_status |-> IF cache # "" THEN "loaded" ELSE "empty",
     last_suggested_count |-> Len(recent),
     sample_cleaned_content |->
         IF Len(pages) > 0
         THEN Prefix(Extracted(pages[1].content), 200)
         ELSE Prefix("No data", 200)]

(* State *)

VARIABLES store, LAST_SUGGESTED_PRODUCTS, SCRAPED_CONTENT_CACHE,
          request, reply, call, threads, served

vars == <<store, LAST_SUGGESTED_PRODUCTS, SCRAPED_CONTENT_CACHE,
          request, reply, call, threads, served>>

NoRequest == Request("", FALSE, JNull)

NoReply == Reply(0, "", <<>>, "", "")

\* the number of rows of the table
StoreSize == 3

Thresholds == {<<3, 10>>, <<6, 10>>, <<9, 10>>}

Requests ==
    { Request("POST", TRUE, DialogflowBody(JStr(q), JStr("LLMQueryIntent"))) :
        q \in QueryTexts }
    \cup { Request("POST", TRUE,
                   DialogflowBody(JStr(q), JStr("Default Fallback Intent"))) :
             q \in FallbackQueryTexts }
    \cup { Request("GET", FALSE, JNull),
           Request("POST", FALSE, JNull),
           Request("POST", TRUE, JList),
           Request("POST", TRUE, JObj({})),
           Request("POST", TRUE, JObj({<<"queryResult", JNull>>})),
           Request("POST", TRUE,
                   JObj({<<"queryResult",
                           JObj({<<"queryText", JStr("red dress")>>,
                                 <<"intent", JNull>>})>>})),
           Request("POST", TRUE, DialogflowBody(JNum, JStr("LLMQueryIntent"))),
           Request("POST", TRUE, DialogflowBody(JNull, JStr(""))),
           Request("POST", TRUE, DialogflowBody(JStr("red dress"), JNum)) }

\* Module state at import: PAGES_CACHE = None, SCRAPED_CONTENT_CACHE = None
\* (written "", both are falsy) and LAST_SUGGESTED_PRODUCTS = [].
InitWith(rows, recent) ==
    /\ store = rows
    /\ LAST_SUGGESTED_PRODUCTS = recent
    /\ SCRAPED_CONTENT_CACHE = ""
    /\ request = NoRequest
    /\ reply = NoReply
    /\ call = NoCall
    /\ threads = <<>>
    /\ served = <<>>

Init == InitWith(SubSeq(Pool, 1, StoreSize), <<>>)

\* one request to /webhook/
Answer(r) ==
    \E o \in dialogflow_webhook(r, store, LAST_SUGGESTED_PRODUCTS) :
        /\ request' = r
        /\ reply' = o.reply
        /\ call' = o.call
        /\ LAST_SUGGESTED_PRODUCTS' = o.recent
        /\ UNCHANGED <<store, SCRAPED_CONTENT_CACHE, threads>>

DialogflowWebhook(r) == Answer(r) /\ UNCHANGED served

\* one request to /webhook/health/
WebhookHealth ==
    /\ request' = NoRequest
    /\ reply' = webhook_health(store, LAST_SUGGESTED_PRODUCTS,
                               SCRAPED_CONTENT_CACHE)
    /\ call' = Call("health", "", Zero, "none", NoSearch, NoAlternatives)
    /\ UNCHANGED <<store, LAST_SUGGESTED_PRODUCTS, SCRAPED_CONTENT_CACHE,
                   threads, served>>

\* a call of search_in_scraped_content(user_query, threshold) by itself
SearchCall(user_query, threshold) ==
    \E s \in search_in_scraped_content(user_query, threshold, store,
                                       LAST_SUGGESTED_PRODUCTS) :
        /\ call' = Call("search", user_query, threshold, "none", s,
                        NoAlternatives)
        /\ LAST_SUGGESTED_PRODUCTS' = s.recent
        /\ request' = NoRequest
        /\ reply' = NoReply
        /\ UNCHANGED <<store, SCRAPED_CONTENT_CACHE, threads, served>>

Next ==
    \/ \E r \in Requests : DialogflowWebhook(r)
    \/ WebhookHealth
    \/ \E q \in SearchQueryTexts, th \in Thresholds : SearchCall(q, th)

Spec == Init /\ [][Next]_vars

(* A table of more than ten products *)

FifoStoreSize == 11

\* The number of matches already served when the observation starts: the
\* query "available" has been answered FifoWarm times, each answer taking
\* the first product of the table that is not in the list.  It leaves five
\* products outside the list, the most get_diverse_product_samples returns
\* without sampling.
FifoWarm == FifoStoreSize - 5

FifoRequests ==
    { Request("POST", TRUE, DialogflowBody(JStr(q), JStr("LLMQueryIntent"))) :
        q \in FifoQueryTexts }
    \cup { Request("POST", TRUE,
                   DialogflowBody(JStr(q), JStr("Default Fallback Intent"))) :
             q \in FifoFallbackQueryTexts }

InitFifo ==
    InitWith(SubSeq(Products, 1, FifoStoreSize),
             [k \in 1..FifoWarm |-> Products[k].url])

NextFifo == \E r \in FifoRequests : DialogflowWebhook(r)

SpecFifo == InitFifo /\ [][NextFifo]_vars

(* A table with more candidates than random.choice is offered *)

RankStoreSize == 4

RankRequests ==
    { Request("POST", TRUE, DialogflowBody(JStr(q), JStr("LLMQueryIntent"))) :
        q \in RankQueryTexts }

InitRank == InitWith(SubSeq(Pool, 1, RankStoreSize), <<>>)

NextRank ==
    \/ \E r \in RankRequests : DialogflowWebhook(r)
    \/ \E q \in RankQueryTexts, th \in Thresholds : SearchCall(q, th)

SpecRank == InitRank /\ [][NextRank]_vars

(* The admin actions of PageContentAdmin *)

AdminStoreSize == 3

AdminRequests ==
    { Request("POST", TRUE, DialogflowBody(JStr(q), JStr("LLMQueryIntent"))) :
        q \in AdminQueryTexts }

\* queryset.update(is_active=flag) on the selected rows
SetActive(pages, selected, flag) ==
    [k \in 1..Len(pages) |->
        IF pages[k].url \in selected
        THEN [pages[k] EXCEPT !.is_active = flag]
        ELSE pages[k]]

mark_inactive(selected) ==
    /\ store' = SetActive(store, selected, FALSE)
    /\ request' = NoRequest
    /\ reply' = NoReply
    /\ call' = Call("admin", "", Zero, "none", NoSearch, NoAlternatives)
    /\ UNCHANGED <<LAST_SUGGESTED_PRODUCTS, SCRAPED_CONTENT_CACHE, threads,
                   served>>

mark_active(selected) ==
    /\ store' = SetActive(store, selected, TRUE)
    /\ request' = NoRequest
    /\ reply' = NoReply
    /\ call' = Call("admin", "", Zero, "none", NoSearch, NoAlternatives)
    /\ UNCHANGED <<LAST_SUGGESTED_PRODUCTS, SCRAPED_CONTENT_CACHE, threads,
                   served>>

InitAdmin == InitWith(SubSeq(Pool, 1, AdminStoreSize), <<>>)

NextAdmin ==
    \/ \E r \in AdminRequests : DialogflowWebhook(r)
    \/ \E selected \in SUBSET Urls(store) \ {{}} : mark_inactive(selected)
    \/ \E selected \in SUBSET Urls(store) \ {{}} : mark_active(selected)

SpecAdmin == InitAdmin /\ [][NextAdmin]_vars

(* A table with a priced row that is not a product, of every length up *)
(* to PriceStoreSize                                                     *)

PriceStoreSize == 5

PriceRequests ==
    { Request("POST", TRUE, DialogflowBody(JStr(q), JStr("LLMQueryIntent"))) :
        q \in PriceQueryTexts }
    \cup { Request("POST", TRUE,
                   DialogflowBody(JStr("cheap dress"),
                                  JStr("Default Fallback Intent"))) }

InitPrice ==
    \E n \in 0..PriceStoreSize : InitWith(SubSeq(PricePool, 1, n), <<>>)

NextPrice ==
    \/ \E r \in PriceRequests : DialogflowWebhook(r)
    \/ \E q \in PriceQueryTexts : SearchCall(q, <<9, 10>>)

SpecPrice == InitPrice /\ [][NextPrice]_vars

(* The scraper: save_product_to_db, save_collection_to_db, the homepage *)
(* upsert of scrape_all_pages and the --clear of scrape_site.  The table  *)
(* is kept in the order of Meta.ordering, the row saved last first.       *)

\* the number of product handles the shop serves
ScrapeHandles == 2

\* what the shop serves for a product on two different days
ScrapedProducts ==
    UNION { { Product("item-" \o ToString(h), "Kurta " \o ToString(h),
                      "500.00", "Blue cotton kurta"),
              Product("item-" \o ToString(h), "Kurta " \o ToString(h) \o " Sale",
                      "450.00", "Blue cotton kurta, now reduced") }
            : h \in 1..ScrapeHandles }

ScrapedCollections ==
    { Collection("summer", "Summer Collection", "Light lawn suits"),
      Collection("summer", "Summer", "") }

\* PageContent.objects.update_or_create with every field in defaults
\* created for a url that is not in the table
UpdateOrCreate_AlwaysCreates(pages, row) ==
    [pages |-> <<row>> \o pages, created |-> TRUE, replaced |-> <<>>]

\* PageContent.objects.update_or_create(url=row.url, defaults={title,
\* content, page_type, is_active}): the table, created, and the row that
\* was updated; save() sets last_scraped, which puts the row first
UpdateOrCreate(pages, row) ==
    IF row.url \in Urls(pages)
    THEN [pages |-> <<row>> \o SelectSeq(pages, LAMBDA p : p.url # row.url),
          created |-> FALSE,
          replaced |-> SelectSeq(pages, LAMBDA p : p.url = row.url)]
    ELSE [pages |-> <<row>> \o pages, created |-> TRUE, replaced |-> <<>>]

\* the report of one save: the row written, created, the row it replaced
Saved(kind, row, saved) ==
    [kind |-> kind, row |-> row, created |-> saved.created,
     replaced |-> saved.replaced]

Save(kind, row) ==
    /\ store' = UpdateOrCreate(store, row).pages
    /\ reply' = Saved(kind, row, UpdateOrCreate(store, row))
    /\ request' = NoRequest
    /\ call' = Call("scrape", "", Zero, "none", NoSearch, NoAlternatives)
    /\ UNCHANGED <<LAST_SUGGESTED_PRODUCTS, SCRAPED_CONTENT_CACHE, threads,
                   served>>

save_product_to_db(product) == Save("product", product)

save_collection_to_db(collection) == Save("collection", collection)

\* the homepage upsert at the end of scrape_all_pages
AddHomepage == Save("homepage", HomePage)

\* scrape_site --clear: PageContent.objects.all().delete()
Clear ==
    /\ store' = <<>>
    /\ reply' = NoReply
    /\ request' = NoRequest
    /\ call' = Call("clear", "", Zero, "none", NoSearch, NoAlternatives)
    /\ UNCHANGED <<LAST_SUGGESTED_PRODUCTS, SCRAPED_CONTENT_CACHE, threads,
                   served>>

InitScrape == InitWith(<<>>, <<>>)

NextScrape ==
    \/ \E product \in ScrapedProducts : save_product_to_db(product)
    \/ \E collection \in ScrapedCollections :
           save_collection_to_db(collection)
    \/ AddHomepage
    \/ Clear
    \/ \E url \in Urls(store) : mark_inactive({url})

SpecScrape == InitScrape /\ [][NextScrape]_vars

(* Requests served at the same time.  The three globals are shared by  *)
(* the threads of the server; a thread can be suspended between any two *)
(* operations on LAST_SUGGESTED_PRODUCTS.  A step is one read or one    *)
(* write of the list: the loop with its exclusion checks (one step, the *)
(* list read once), the append, the length test, pop(0), the read in    *)
(* get_diverse_product_samples, and clear().  Each thread serves one     *)
(* request with intent LLMQueryIntent.                                   *)

RaceStoreSize == 11

\* the most matches served before the observed requests arrive, each
\* having taken the first product of the table that is not in the list
RaceWarm == Min(10, RaceStoreSize - 1)

Threads == 1..2

RaceQueryTexts == {"available", "hello"}

\* a thread: where it is, the url it selected, the status of its reply
Thread(pc, user_query, url, status) ==
    [pc |-> pc, user_query |-> user_query, url |-> url, status |-> status]

Idle == Thread("idle", "", "", 0)

Step(t, thread, recent) ==
    /\ threads' = [threads EXCEPT ![t] = thread]
    /\ LAST_SUGGESTED_PRODUCTS' = recent
    /\ UNCHANGED <<store, SCRAPED_CONTENT_CACHE, request, reply, call,
                   served>>

\* after the loop and the selection: the thread is about to append the
\* url it selected, or, with no match, about to list alternatives
AfterLoop(user_query, all_matches) ==
    IF all_matches # <<>>
    THEN { Thread("append", user_query, all_matches[r].url, 0)
           : r \in Picks(all_matches) }
    ELSE { Thread("sample", user_query, "", 0) }

\* handle_llm_query_intent(user_query) up to line 205 of the search
Loop(t, user_query) ==
    /\ threads[t].pc = "idle"
    /\ \E thread \in AfterLoop(user_query,
                                SortByScore(Candidates(lower(user_query),
                                                       <<3, 10>>, store,
                                                       LAST_SUGGESTED_PRODUCTS))) :
           Step(t, thread, LAST_SUGGESTED_PRODUCTS)

\* RaceAppend that does not append a url the list holds
RaceAppend_Unique(recent, url) ==
    IF url \in Range(recent) THEN recent ELSE Append(recent, url)

\* LAST_SUGGESTED_PRODUCTS.append(selected['page'].url)
RaceAppend(recent, url) == Append(recent, url)

AppendUrl(t) ==
    /\ threads[t].pc = "append"
    /\ Step(t, [threads[t] EXCEPT !.pc = "test"],
            RaceAppend(LAST_SUGGESTED_PRODUCTS, threads[t].url))

\* if len(LAST_SUGGESTED_PRODUCTS) > 10
TestLength(t) ==
    /\ threads[t].pc = "test"
    /\ Step(t, IF Len(LAST_SUGGESTED_PRODUCTS) > 10
               THEN [threads[t] EXCEPT !.pc = "pop"]
               ELSE [threads[t] EXCEPT !.pc = "done", !.status = 200],
            LAST_SUGGESTED_PRODUCTS)

\* LAST_SUGGESTED_PRODUCTS.pop(0): IndexError on an empty list, which
\* nothing catches, so the request is answered with status 500
PopOldest(t) ==
    /\ threads[t].pc = "pop"
    /\ IF LAST_SUGGESTED_PRODUCTS = <<>>
       THEN Step(t, [threads[t] EXCEPT !.pc = "failed", !.status = 500],
                 LAST_SUGGESTED_PRODUCTS)
       ELSE Step(t, [threads[t] EXCEPT !.pc = "done", !.status = 200],
                 Tail(LAST_SUGGESTED_PRODUCTS))

\* available_pages = [p for p in all_pages if p.url not in the list]
Sample(t) ==
    /\ threads[t].pc = "sample"
    /\ Step(t, IF get_diverse_product_samples(5, store,
                                              LAST_SUGGESTED_PRODUCTS).cleared
               THEN [threads[t] EXCEPT !.pc = "clear"]
               ELSE [threads[t] EXCEPT !.pc = "done", !.status = 200],
            LAST_SUGGESTED_PRODUCTS)

\* LAST_SUGGESTED_PRODUCTS.clear()
ClearList(t) ==
    /\ threads[t].pc = "clear"
    /\ Step(t, [threads[t] EXCEPT !.pc = "done", !.status = 200], <<>>)

InitRace ==
    /\ store = SubSeq(Products, 1, RaceStoreSize)
    /\ \E n \in 0..RaceWarm :
           LAST_SUGGESTED_PRODUCTS = [k \in 1..n |-> Products[k].url]
    /\ SCRAPED_CONTENT_CACHE = ""
    /\ request = NoRequest
    /\ reply = NoReply
    /\ call = NoCall
    /\ threads = [t \in Threads |-> Idle]
    /\ served = <<>>

NextRace ==
    \E t \in Threads :
        \/ \E q \in RaceQueryTexts : Loop(t, q)
        \/ AppendUrl(t)
        \/ TestLength(t)
        \/ PopOldest(t)
        \/ Sample(t)
        \/ ClearList(t)

SpecRace == InitRace /\ [][NextRace]_vars

(* Tables of products that answer "red dress" *)

RedStoreSize == 2

RedQueryTexts == {"red dress", "mujhe red dress dikhao", "Hello"}

RedRequests ==
    { Request("POST", TRUE, DialogflowBody(JStr(q), JStr("LLMQueryIntent"))) :
        q \in RedQueryTexts }
    \cup { Request("POST", TRUE,
                   DialogflowBody(JStr("red dress"),
                                  JStr("Default Fallback Intent"))) }

\* the tables of n different rows of RedPool, in any order
RedStores(n) ==
    { [k \in 1..n |-> RedPool[f[k]]] :
        f \in { g \in [1..n -> 1..Len(RedPool)] :
                  \A i, j \in 1..n : g[i] = g[j] => i = j } }

InitRed ==
    \E n \in 1..RedStoreSize : \E rows \in RedStores(n) :
        \E recent \in {<<>>} \cup {<<rows[k].url>> : k \in 1..n} :
            InitWith(rows, recent)

NextRed == \E r \in RedRequests : DialogflowWebhook(r)

SpecRed == InitRed /\ [][NextRed]_vars

(* The requests of one client after another, with the record of what   *)
(* they were served: the url of every successful general match, and     *)
(* "clear" for every LAST_SUGGESTED_PRODUCTS.clear().                    *)

ServedStoreSize == 11

\* the number of entries recorded
MaxServed == 12

ServedRequests ==
    { Request("POST", TRUE, DialogflowBody(JStr(q), JStr("LLMQueryIntent"))) :
        q \in ServedQueryTexts \cup {"cheap dress"} }

\* what one answered request adds to the record
Note(c) ==
    IF c.path = "general" /\ c.result.found THEN <<c.url>>
    ELSE IF c.cleared THEN <<"clear">>
    ELSE <<>>

Observed(r) ==
    /\ Len(served) < MaxServed
    /\ Answer(r)
    /\ served' = served \o Note(call')

InitServed ==
    \E n \in {3, ServedStoreSize} : InitWith(SubSeq(Products, 1, n), <<>>)

NextServed == \E r \in ServedRequests : Observed(r)

SpecServed == InitServed /\ [][NextServed]_vars

(* Every kind of request, on a table the list can cover and on one it *)
(* cannot                                                              *)

FrameStoreSize == 3

FrameRequests ==
    FifoRequests
    \cup { Request("GET", FALSE, JNull), Request("POST", FALSE, JNull) }

\* either a short table and an empty list, or the long table of InitFifo
InitFrame ==
    \/ InitWith(SubSeq(Products, 1, FrameStoreSize), <<>>)
    \/ InitFifo

NextFrame ==
    \/ \E r \in FrameRequests : DialogflowWebhook(r)
    \/ WebhookHealth

SpecFrame == InitFrame /\ [][NextFrame]_vars

(* Queries that every scoring rule answers, at every threshold *)

ScoreStoreSize == 3

ScoreRequests ==
    { Request("POST", TRUE, DialogflowBody(JStr(q), JStr("LLMQueryIntent"))) :
        q \in ScoreQueryTexts }

InitScore == InitWith(SubSeq(Pool, 1, ScoreStoreSize), <<>>)

NextScore ==
    \/ \E r \in ScoreRequests : DialogflowWebhook(r)
    \/ \E q \in ScoreQueryTexts, th \in Thresholds : SearchCall(q, th)

SpecScore == InitScore /\ [][NextScore]_vars

(* One client that sends the same request again and again *)

RepeatStoreSize == 5

RepeatQueryTexts ==
    { "available", "red dress", "mujhe red dress dikhao",
      "red dress cotton embroidery",
      "status available description velvet",
      "status available description linen" }

RepeatRequest(q) ==
    Request("POST", TRUE, DialogflowBody(JStr(q), JStr("LLMQueryIntent")))

\* dialogflow_webhook for one table, request and list
RepeatEntry(n, q, recent) ==
    [n |-> n, q |-> q, recent |-> recent,
     outcomes |-> dialogflow_webhook(RepeatRequest(q), SubSeq(Products, 1, n),
                                     recent)]

\* the lists the entries lead to
ListsAfter(entries) ==
    UNION { { o.recent : o \in t.outcomes } : t \in entries }

\* the entries for the lists in todo, and for every list they lead to
RECURSIVE RepeatEntries(_, _, _, _)
RepeatEntries(n, q, done, todo) ==
    IF todo = {} THEN {}
    ELSE LET entries == { RepeatEntry(n, q, recent) : recent \in todo }
         IN  entries
             \cup RepeatEntries(n, q, done \cup todo,
                                ListsAfter(entries) \ (done \cup todo))

\* dialogflow_webhook for every table and request of this client and every
\* list its requests lead to
RepeatTable ==
    UNION { UNION { RepeatEntries(n, q, {}, {<<>>})
                    : q \in RepeatQueryTexts }
            : n \in 1..RepeatStoreSize }

\* some page of the table is a candidate for the query when the list is
\* empty
MatchesSome(user_query, pages) ==
    Candidates(lower(user_query), <<3, 10>>, pages, <<>>) # <<>>

InitRepeat ==
    \E n \in 1..RepeatStoreSize : \E q \in RepeatQueryTexts :
        /\ MatchesSome(q, SubSeq(Products, 1, n))
        /\ \E t \in RepeatTable : t.n = n /\ t.q = q /\ t.recent = <<>>
        /\ store = SubSeq(Products, 1, n)
        /\ LAST_SUGGESTED_PRODUCTS = <<>>
        /\ SCRAPED_CONTENT_CACHE = ""
        /\ request = RepeatRequest(q)
        /\ reply = NoReply
        /\ call = NoCall
        /\ threads = <<>>
        /\ served = <<>>

\* the request is answered once more
NextRepeat ==
    \E q \in RepeatQueryTexts :
        /\ request = RepeatRequest(q)
        /\ \E t \in RepeatTable :
              /\ t.n = Len(store)
              /\ t.q = q
              /\ t.recent = LAST_SUGGESTED_PRODUCTS
              /\ \E o \in t.outcomes :
                    /\ reply' = o.reply
                    /\ call' = o.call
                    /\ LAST_SUGGESTED_PRODUCTS' = o.recent
                    /\ UNCHANGED <<request, store, SCRAPED_CONTENT_CACHE,
                                   threads, served>>

SpecRepeat == InitRepeat /\ [][NextRepeat]_vars

\* the client never stops sending
FairRepeat == SpecRepeat /\ WF_vars(NextRepeat)

(* Properties *)

RowOf(url) == store[CHOOSE k \in 1..Len(store) : store[k].url = url]

\* the triple a general match returns for a row
ResultFor(row, score) ==
    Result(Extracted(row.content), score, TitleOr(row.title, "Product"))

\* C1: the recent-suggestions list never holds more than 10 urls, and a
\* successful general match appends the returned url; on a list of 10 it
\* removes exactly the head and keeps the order of the other entries.
C1_BoundedFifo ==
    /\ [](Len(LAST_SUGGESTED_PRODUCTS) <= 10)
    /\ [][ (call'.path = "general" /\ call'.result.found) =>
               LAST_SUGGESTED_PRODUCTS' =
                   IF Len(LAST_SUGGESTED_PRODUCTS) = 10
                   THEN Tail(LAST_SUGGESTED_PRODUCTS) \o <<call'.url>>
                   ELSE Append(LAST_SUGGESTED_PRODUCTS, call'.url) ]_vars

\* an eleventh url has been appended and the head evicted
C1_Witness ==
    /\ call.path = "general"
    /\ call.evicted
    /\ Len(LAST_SUGGESTED_PRODUCTS) = 10

\* C2: a general match never returns a row whose url is in the list at
\* the moment of the call nor a score below the threshold of the call, the
\* triple it returns is that of the row it names, and when every row is
\* below the threshold or in the list it returns (None, 0, None).
C2_ThresholdAndExclusion ==
    [][ call'.path = "general" =>
          /\ call'.result.found =>
                /\ call'.url \in Urls(store)
                /\ call'.url \notin Range(LAST_SUGGESTED_PRODUCTS)
                /\ GE(call'.result.score, call'.threshold)
                /\ call'.result = ResultFor(RowOf(call'.url), call'.result.score)
          /\ (\A k \in 1..Len(store) :
                 \/ store[k].url \in Range(LAST_SUGGESTED_PRODUCTS)
                 \/ ~GE(Matched(lower(call'.query), store[k]).score,
                        call'.threshold))
             => call'.result = NoneResult ]_vars

\* a direct call with threshold 0.6 found a row while two urls were listed
\* before it
C2_Witness ==
    /\ call.route = "search"
    /\ call.threshold = <<6, 10>>
    /\ call.result.found
    /\ Len(LAST_SUGGESTED_PRODUCTS) >= 3

\* C3 as stated: every call of search_in_scraped_content that returns a
\* result, on whatever path, has recorded the url of a row in the list.
C3_Original ==
    [][ (call'.path # "none" /\ call'.result.found) =>
          /\ LAST_SUGGESTED_PRODUCTS' # LAST_SUGGESTED_PRODUCTS
          /\ LAST_SUGGESTED_PRODUCTS'[Len(LAST_SUGGESTED_PRODUCTS')]
                \in Urls(store) ]_vars

\* C3 amended: every general (non-price) call that returns a result has
\* recorded the url of the returned row as the newest entry of the list;
\* a result of the price path leaves the list as it was.
C3_GeneralMatchRecorded ==
    [][ /\ (call'.path = "general" /\ call'.result.found) =>
              /\ LAST_SUGGESTED_PRODUCTS' # <<>>
              /\ LAST_SUGGESTED_PRODUCTS'[Len(LAST_SUGGESTED_PRODUCTS')]
                     = call'.url
              /\ call'.url \in Urls(store)
              /\ call'.result = ResultFor(RowOf(call'.url), call'.result.score)
        /\ (call'.path = "price" /\ call'.result.found) =>
              LAST_SUGGESTED_PRODUCTS' = LAST_SUGGESTED_PRODUCTS ]_vars

\* the webhook answered from a general match and the list ends with its url
C3_Witness ==
    /\ call.route = "llm"
    /\ call.path = "general"
    /\ call.result.found
    /\ LAST_SUGGESTED_PRODUCTS # <<>>
    /\ LAST_SUGGESTED_PRODUCTS[Len(LAST_SUGGESTED_PRODUCTS)] = call.url

NonBlankCount(text) ==
    Cardinality({i \in 1..Len(text) : ~IsSpace(CharAt(text, i))})

\* C4 as stated: every POST whose body parses as JSON is answered with
\* status 200, a fulfillmentText of at least 5 non-blank characters, that
\* same string as the only fulfillment message, and source "webhook".
C4_Original ==
    (request.method = "POST" /\ request.parses) =>
        /\ reply.status = 200
        /\ NonBlankCount(reply.fulfillmentText) >= 5
        /\ reply.fulfillmentMessages = <<reply.fulfillmentText>>
        /\ reply.source = "webhook"

\* C5 as stated: no POST request ends in an unhandled error.
C5_Original == request.method = "POST" => call.route # "raised"

\* C6: a request that is not a POST is answered 405, a POST whose body is
\* not JSON is answered 400 with the fixed text; neither runs a handler
\* nor changes the list, the cache or the table.
C6_Rejections ==
    [][ /\ request'.method \notin {"", "POST"} =>
              /\ reply'.status = 405
              /\ reply'.error = "Only POST allowed"
        /\ (request'.method = "POST" /\ ~request'.parses) =>
              /\ reply'.status = 400
              /\ reply'.fulfillmentText = ":warning: Invalid request."
        /\ (request'.method \notin {"", "POST"}
            \/ (request'.method = "POST" /\ ~request'.parses)) =>
              /\ call'.route = "rejected"
              /\ call'.branch = "none"
              /\ call'.path = "none"
              /\ UNCHANGED <<LAST_SUGGESTED_PRODUCTS, SCRAPED_CONTENT_CACHE,
                             store>> ]_vars

\* a body that is not JSON was rejected while the list held urls
C6_Witness ==
    /\ request.method = "POST"
    /\ ~request.parses
    /\ reply.status = 400
    /\ LAST_SUGGESTED_PRODUCTS # <<>>

\* C7 as stated: the row a general match returns and records, and the rows
\* the price path lists, are rows whose is_active flag is true.
C7_Original ==
    [][ call'.route \in {"llm", "fallback"} =>
          /\ call'.url # "" => RowOf(call'.url).is_active
          /\ \A i \in 1..Len(call'.priced) :
                 RowOf(call'.priced[i]).is_active ]_vars

\* whether each known query is a substring of each known cleaned content
PhraseTable ==
    [q \in KnownQueries |->
        [c \in DOMAIN CleanLowerTable |-> Contains(q, CleanLowerTable[c])]]

\* user_query_lower in extract_product_info(content).lower()
ContainsPhrase(user_query_lower, row) ==
    IF /\ user_query_lower \in KnownQueries
       /\ row.content \in DOMAIN CleanLowerTable
    THEN PhraseTable[user_query_lower][row.content]
    ELSE Contains(user_query_lower, CleanLower(row.content))

ContainsQuery(q, row) == ContainsPhrase(lower(q), row)

TitleOnly(q, row) ==
    ~ContainsQuery(q, row) /\ Contains(lower(q), lower(row.title))

\* C8 as stated: every row that is not in the list and whose cleaned
\* content contains the lower-cased query is the row returned, with score
\* 0.9, unless a row matches the query by its title only.
C8_Original ==
    [][ call'.path # "none" =>
          \A k \in 1..Len(store) :
              ( /\ ContainsQuery(call'.query, store[k])
                /\ store[k].url \notin Range(LAST_SUGGESTED_PRODUCTS)
                /\ \A j \in 1..Len(store) : ~TitleOnly(call'.query, store[j]) )
              => call'.result = ResultFor(store[k], <<9, 10>>) ]_vars

\* which known queries hold a price keyword
PriceQueryTable == [q \in KnownQueries |-> AnyIn(price_keywords, q)]

\* any(word in user_query_lower for word in price_keywords)
IsPriceQuery(user_query_lower) ==
    IF user_query_lower \in KnownQueries THEN PriceQueryTable[user_query_lower]
    ELSE AnyIn(price_keywords, user_query_lower)

\* row k contains the query, has something to show and is not in the list
PhraseHit(user_query_lower, k, recent) ==
    /\ ContainsPhrase(user_query_lower, store[k])
    /\ Extracted(store[k].content) # ""
    /\ store[k].url \notin Range(recent)

\* C8 amended: for a query without a price keyword and a threshold of at
\* most 0.9, when some row that is not in the list has a non-empty cleaned
\* content that contains the lower-cased query, the match returns the
\* first such row of the table, with score 0.9.
C8_FirstExactPhrase ==
    [][ call'.path # "none" =>
          LET user_query_lower == lower(call'.query)
          IN  ( /\ ~IsPriceQuery(user_query_lower)
                /\ GE(<<9, 10>>, call'.threshold) )
              => \A k \in 1..Len(store) :
                    ( /\ PhraseHit(user_query_lower, k,
                                   LAST_SUGGESTED_PRODUCTS)
                      /\ \A j \in 1..(k - 1) :
                             ~PhraseHit(user_query_lower, j,
                                        LAST_SUGGESTED_PRODUCTS) )
                    => /\ call'.url = store[k].url
                       /\ call'.result = ResultFor(store[k], <<9, 10>>) ]_vars

\* several rows contain the query and one of them was returned with 0.9
C8_Witness ==
    /\ call.query = "Available"
    /\ call.result.found
    /\ call.result.score = <<9, 10>>
    /\ Cardinality({k \in 1..Len(store) :
                        ContainsQuery(call.query, store[k])}) >= 2
    /\ Len(LAST_SUGGESTED_PRODUCTS) = 2

\* the positions of the rows that are candidates of a general match
CandidateRows(q, threshold, recent) ==
    {k \in 1..Len(store) :
        LET m == Matched(lower(q), store[k])
        IN  /\ GE(m.score, threshold)
            /\ m.excerpt # ""
            /\ store[k].url \notin Range(recent)}

\* 1 + the number of candidates placed before row k by a stable
\* descending sort on the score
RankOf(k, q, rows) ==
    LET score(j) == Matched(lower(q), store[j]).score
    IN  1 + Cardinality({j \in rows :
                \/ GT(score(j), score(k))
                \/ SameScore(score(j), score(k)) /\ j < k})

BestAbove(q, rows, bar) ==
    \E j \in rows : GT(Matched(lower(q), store[j]).score, bar)

\* C9: when the highest candidate score is above 0.7 a general match
\* returns the highest-scoring candidate and nothing else; otherwise it
\* returns one of the three highest-scoring candidates, never one ranked
\* fourth or lower, and each of the three is a possible outcome.
C9_Selection ==
    /\ [][ (call'.path = "general" /\ call'.result.found) =>
              LET rows == CandidateRows(call'.query, call'.threshold,
                                        LAST_SUGGESTED_PRODUCTS)
                  k == CHOOSE j \in 1..Len(store) : store[j].url = call'.url
              IN  /\ k \in rows
                  /\ call'.result =
                         ResultFor(store[k],
                                   Matched(lower(call'.query), store[k]).score)
                  /\ IF BestAbove(call'.query, rows, <<7, 10>>)
                     THEN RankOf(k, call'.query, rows) = 1
                     ELSE RankOf(k, call'.query, rows) <= 3 ]_vars
    /\ [](\A q \in RankQueryTexts, th \in Thresholds :
             LET rows == CandidateRows(q, th, LAST_SUGGESTED_PRODUCTS)
             IN  \A k \in rows :
                     ( /\ ~BestAbove(q, rows, <<7, 10>>)
                       /\ RankOf(k, q, rows) <= 3 )
                     => \E s \in search_in_scraped_content(
                                      q, th, store, LAST_SUGGESTED_PRODUCTS) :
                            /\ s.url = store[k].url
                            /\ s.result =
                                  ResultFor(store[k],
                                            Matched(lower(q), store[k]).score))

\* the third of four candidates, none above 0.7, was returned
C9_Witness ==
    /\ call.path = "general"
    /\ call.result.found
    /\ ~GT(call.result.score, <<7, 10>>)
    /\ call.ncand >= 4
    /\ call.rank = 3

\* the score of a row as the rules are stated: the first rule that
\* qualifies among exact phrase in the cleaned content, exact phrase in the
\* title, colour and category, and otherwise the keyword overlap when it
\* is above 0.4
StatedScore(q, row) ==
    LET user_query_lower == lower(q)
        clean_content_lower == CleanLower(row.content)
        query_words == SelectSeq(split(user_query_lower), LAMBDA w : Len(w) > 2)
        query_colors ==
            SelectSeq(colors, LAMBDA c : Contains(c, user_query_lower))
        query_categories ==
            SelectSeq(categories, LAMBDA c : Contains(c, user_query_lower))
        color_match == AnyIn(query_colors, clean_content_lower)
        category_match == AnyIn(query_categories, clean_content_lower)
        overlap ==
            <<Len(SelectSeq(query_words,
                            LAMBDA w : Contains(w, clean_content_lower))),
              Len(query_words)>>
    IN  IF Contains(user_query_lower, clean_content_lower) THEN <<9, 10>>
        ELSE IF Contains(user_query_lower, lower(row.title)) THEN <<17, 20>>
        ELSE IF /\ query_colors # <<>> /\ query_categories # <<>>
                /\ color_match /\ category_match THEN <<8, 10>>
        ELSE IF /\ query_colors # <<>> /\ query_categories # <<>>
                /\ (color_match \/ category_match) THEN <<6, 10>>
        ELSE IF query_words # <<>> /\ GT(overlap, <<4, 10>>) THEN overlap
        ELSE Zero

\* the score with which the code lets a row compete
KeptScore(q, row) ==
    LET m == Matched(lower(q), row)
    IN  IF m.excerpt = "" THEN Zero ELSE m.score

\* C10 as stated: after a general match every row with a non-empty cleaned
\* content has competed with the score of the first qualifying rule, the
\* keyword overlap included when the query has a colour and a category of
\* which neither appears in the row.
C10_Original ==
    call.path = "general" =>
        \A k \in 1..Len(store) :
            Extracted(store[k].content) # "" =>
                SameScore(KeptScore(call.query, store[k]),
                          StatedScore(call.query, store[k]))
\* the price of a row in hundredths, -1 when its content quotes none
PriceTable == [c \in DOMAIN ExtractTable |-> PriceSearch(c)]

PriceOf(row) == PriceTable[row.content]

\* the positions of the product rows that quote a price
PricedRows ==
    {k \in 1..Len(store) :
        store[k].page_type = "product" /\ PriceOf(store[k]) >= 0}

C12_OneRowPerUrl ==
    /\ [](\A i, j \in 1..Len(store) :
              store[i].url = store[j].url => i = j)
    /\ [][ call'.route = "scrape" =>
             LET row == reply'.row
                 others(pages) ==
                     {pages[k] : k \in {n \in 1..Len(pages) :
                                           pages[n].url # row.url}}
             IN  /\ \E k \in 1..Len(store') :
                       /\ store'[k].url = row.url
                       /\ store'[k].title = row.title
                       /\ store'[k].content = row.content
                       /\ store'[k].page_type = row.page_type
                       /\ store'[k].is_active
                 /\ others(store') = others(store)
                 /\ IF row.url \in Urls(store)
                    THEN ~reply'.created /\ Len(store') = Len(store)
                    ELSE reply'.created /\ Len(store') = Len(store) + 1 ]_vars

\* a product that had been marked inactive was saved again under a new
\* title: not created, the table still holds three rows
C12_Witness ==
    /\ call.route = "scrape"
    /\ reply.kind = "product"
    /\ ~reply.created
    /\ Len(store) = 3
    /\ reply.replaced # <<>>
    /\ ~reply.replaced[1].is_active
    /\ reply.replaced[1].title # reply.row.title
    /\ store[1] = reply.row
\* C13: a request whose exclusion check found its page outside the list
\* appends the url also when another request has put it into the list in
\* the meantime: the list then holds the url twice, and the request goes on
\* to return the page it selected.
C13_Race ==
    [][ \A t \in DOMAIN threads :
          /\ (/\ threads[t].pc = "append" /\ threads'[t].pc = "test"
              /\ threads[t].url \in Range(LAST_SUGGESTED_PRODUCTS))
             => Len(SelectSeq(LAST_SUGGESTED_PRODUCTS',
                              LAMBDA x : x = threads[t].url)) >= 2
          /\ (threads[t].pc \in {"test", "pop"} /\ threads'[t].pc = "done")
             => threads'[t].url = threads[t].url /\ threads'[t].status = 200
      ]_vars

\* both requests were answered with the same page, and its url is twice
\* in the list
C13_Witness ==
    /\ DOMAIN threads = Threads
    /\ threads[1].pc = "done" /\ threads[2].pc = "done"
    /\ threads[1].status = 200 /\ threads[2].status = 200
    /\ threads[1].url = Products[RaceWarm + 1].url
    /\ threads[2].url = threads[1].url
    /\ Len(SelectSeq(LAST_SUGGESTED_PRODUCTS,
                     LAMBDA x : x = threads[1].url)) = 2

\* C14 as stated: no request fails, pop(0) never runs on an empty list
C14_Original ==
    \A t \in DOMAIN threads :
        /\ threads[t].pc # "failed"
        /\ threads[t].pc = "pop" => LAST_SUGGESTED_PRODUCTS # <<>>
\* the request of C15
IsRedDressRequest(r) ==
    r = Request("POST", TRUE,
                DialogflowBody(JStr("red dress"), JStr("LLMQueryIntent")))

\* a product page outside the list whose cleaned content contains "red" and
\* "dress" but not "red dress"
RedAndDress(row, recent) ==
    /\ row.page_type = "product"
    /\ row.url \notin Range(recent)
    /\ Contains("red", CleanLower(row.content))
    /\ Contains("dress", CleanLower(row.content))
    /\ ~Contains("red dress", CleanLower(row.content))

\* the English template with a title
TitledEnglish(title, excerpt) ==
    ":sparkles: **" \o title \o "**\n\n" \o excerpt \o "\n\nWant more details?"

\* the answer of C15 for a row
RedDressAnswer(row) ==
    /\ call'.route = "llm"
    /\ call'.branch = "high"
    /\ call'.url = row.url
    /\ call'.result.score = <<8, 10>>
    /\ reply'.status = 200
    /\ reply'.fulfillmentText
         = TitledEnglish(row.title, Extracted(row.content))

PhraseRow(row, recent) ==
    /\ row.url \notin Range(recent)
    /\ \/ Contains("red dress", CleanLower(row.content))
       \/ Contains("red dress", lower(row.title))

NoClearBetween(i, j) == \A k \in (i + 1)..(j - 1) : served[k] # "clear"

\* C16: a page served by a general match is not served again by any of
\* the next 10 successful general matches unless the list was cleared in
\* between, and after 10 further successful matches without a clear it is
\* outside the list.
C16_NotAgainForTen ==
    \A i \in 1..Len(served) :
        served[i] # "clear" =>
            /\ \A j \in (i + 1)..Len(served) :
                   (served[j] = served[i] /\ NoClearBetween(i, j))
                   => j - i > 10
            /\ (Len(served) = i + 10 /\ NoClearBetween(i, i + 11))
               => served[i] \notin Range(LAST_SUGGESTED_PRODUCTS)

\* a page was served, ten other pages after it, and then the page again
C16_Witness ==
    /\ Len(served) = 12
    /\ served[1] = Products[5].url
    /\ served[12] = served[1]
    /\ NoClearBetween(1, 12)
    /\ call.url = served[1]
\* a page was served again after fewer than ten others, the list having
\* been cleared in between
C16_ClearedWitness ==
    /\ Len(served) = 5
    /\ served[4] = "clear"
    /\ served[5] = served[1]
\* C17 as stated: when one query that matches a page of the table is sent
\* again and again, a reply made from a scraped match is returned
\* infinitely often.
C17_Original == []<>(call.branch \in {"high", "medium"})
\* C18: the list never holds the same url twice.
C18_NoDuplicates ==
    \A i, j \in 1..Len(LAST_SUGGESTED_PRODUCTS) :
        LAST_SUGGESTED_PRODUCTS[i] = LAST_SUGGESTED_PRODUCTS[j] => i = j

\* a price query was answered while the list held ten urls, the oldest
\* having been removed before
C18_Witness ==
    /\ Len(LAST_SUGGESTED_PRODUCTS) = 10
    /\ Len(served) = 11
    /\ call.path = "price"

\* an alternatives request had cleared the list, and a page was served
\* again after it
C18_ClearedWitness ==
    /\ Len(served) = 5
    /\ served[4] = "clear"
    /\ LAST_SUGGESTED_PRODUCTS = <<served[5]>>
    /\ call.path = "price"
\* the list after a general match that returned url: the url appended,
\* and the head removed when that makes eleven
Recorded(recent, url) ==
    IF Len(recent) + 1 > 10 THEN Tail(recent) \o <<url>>
    ELSE recent \o <<url>>

\* the list after get_diverse_product_samples: empty when no stored page
\* is outside it, untouched otherwise
Sampled(pages, recent) ==
    IF Urls(pages) \subseteq Range(recent) THEN <<>> ELSE recent

\* C19: the list changes in two ways only.  A general match that returns
\* a page appends the url of that page and removes at most the head; a
\* call of get_diverse_product_samples empties the list when, and only
\* when, every stored page is in it.  A price query, a general match that
\* returns none, a canned reply of the fallback handler, the health
\* endpoint and a rejected request leave the list as it was, and no page
\* listed as an alternative is added to it.
C19_TwoWays ==
    [][ LET old == LAST_SUGGESTED_PRODUCTS
            new == LAST_SUGGESTED_PRODUCTS'
            c == call'
            matched == c.path = "general" /\ c.result.found
            sampled == c.branch \in {"low", "alternatives"}
        IN  /\ matched => new = Recorded(old, c.url)
            /\ sampled => new = Sampled(store, old)
            /\ (sampled /\ new # <<>>) =>
                   /\ new = old
                   /\ c.listed # <<>>
                   /\ Range(c.listed) \cap Range(new) = {}
            /\ (~matched /\ ~sampled) => new = old
            /\ ~(matched /\ sampled)
            /\ (c.path = "price" /\ c.result.found) => new = old
            /\ (c.path = "general" /\ ~c.result.found) => sampled
            /\ c.branch = "canned" => new = old
            /\ c.route \in {"health", "rejected"} => new = old ]_vars

\* get_diverse_product_samples has emptied a list that held every stored
\* page, and the pages it returned were listed in the reply
C19_Witness ==
    /\ call.branch = "low"
    /\ call.cleared
    /\ call.listed # <<>>
    /\ LAST_SUGGESTED_PRODUCTS = <<>>
    /\ Len(store) = FrameStoreSize

\* a general match has appended an eleventh url and removed the oldest
C19_EvictWitness ==
    /\ call.path = "general"
    /\ call.evicted
    /\ Len(LAST_SUGGESTED_PRODUCTS) = 10
    /\ LAST_SUGGESTED_PRODUCTS[10] = call.url
    /\ Len(store) = FifoStoreSize

\* alternatives were listed from a table with pages outside the list
C19_ListedWitness ==
    /\ call.branch = "alternatives"
    /\ ~call.cleared
    /\ call.listed # <<>>
    /\ LAST_SUGGESTED_PRODUCTS # <<>>

\* a price query, a canned reply, the health endpoint and a rejected
\* request, each on a list that holds urls
C19_PriceWitness ==
    call.path = "price" /\ call.result.found /\ LAST_SUGGESTED_PRODUCTS # <<>>

C19_CannedWitness ==
    call.branch = "canned" /\ LAST_SUGGESTED_PRODUCTS # <<>>

C19_HealthWitness ==
    call.route = "health" /\ LAST_SUGGESTED_PRODUCTS # <<>>

C19_RejectedWitness ==
    call.route = "rejected" /\ LAST_SUGGESTED_PRODUCTS # <<>>
\* the score the rules give, for the query of call c, to the page of url
ScoreOf(c, url) == Matched(lower(c.query), RowOf(url)).score

\* a page of the table whose score for the query of call c lies in
\* [0.3, 0.4]
ScoresLow(c, page) ==
    LET m == Matched(lower(c.query), page)
    IN  GE(m.score, <<3, 10>>) /\ GE(<<4, 10>>, m.score)

\* C20: every result of search_in_scraped_content other than
\* (None, 0, None) has a score above 0.4: 0.95 from the price path, and
\* from the general matcher 0.9, 0.85, 0.8, 0.6 or the keyword ratio of
\* the returned page; no page that scores in [0.3, 0.4] is returned; and
\* handle_llm_query_intent takes its alternatives branch exactly when
\* the result is (None, 0, None).
C20_AboveFourTenths ==
    [][ LET c == call'
            r == c.result
        IN  /\ r.found =>
                  /\ GT(r.score, <<4, 10>>)
                  /\ r.excerpt # ""
                  /\ (c.path = "price" => SameScore(r.score, <<19, 20>>))
                  /\ (c.path = "general" =>
                        /\ SameScore(r.score, ScoreOf(c, c.url))
                        /\ ~ScoresLow(c, RowOf(c.url))
                        /\ \/ \E known \in {<<9, 10>>, <<17, 20>>, <<8, 10>>,
                                             <<6, 10>>} :
                                  SameScore(r.score, known)
                           \/ r.score[2] = Len(SelectSeq(split(lower(c.query)),
                                                         LAMBDA w : Len(w) > 2)))
            /\ c.route = "llm" =>
                  /\ (c.branch = "low" <=> ~r.found)
                  /\ (r.found <=> c.branch \in {"high", "medium"}) ]_vars

\* the alternatives branch was taken at threshold 0.3 although a page
\* outside the list scores in [0.3, 0.4] for the query
C20_Witness ==
    /\ call.route = "llm"
    /\ call.branch = "low"
    /\ call.path = "general"
    /\ ~call.result.found
    /\ \E k \in 1..Len(store) :
           /\ store[k].url \notin Range(LAST_SUGGESTED_PRODUCTS)
           /\ ScoresLow(call, store[k])

\* a keyword ratio above 0.4 and not above 0.7 was answered from the page
C20_MediumWitness ==
    /\ call.route = "llm"
    /\ call.branch = "medium"
    /\ call.result.found
    /\ ~GT(call.result.score, <<7, 10>>)
    /\ ~SameScore(call.result.score, <<6, 10>>)

\* a price result was answered from the high-confidence branch
C20_PriceWitness ==
    /\ call.route = "llm"
    /\ call.branch = "high"
    /\ call.path = "price"
    /\ SameScore(call.result.score, <<19, 20>>)
====
